---- MODULE Spec2Model ----
(***************************************************************************)
(* Giveaway bot (src/bot.py): the deadline-triggered draw engine.          *)
(* Several worker processes share one SQLite store.  Each process arms     *)
(* APScheduler date jobs for the deadlines of the scheduled giveaways,     *)
(* scans the store at startup (restore_schedules), and runs run_draw,      *)
(* whose first statement is the conditional UPDATE scheduled -> drawing.   *)
(***************************************************************************)
EXTENDS Integers, Sequences, FiniteSets, TLC

\* ---------------------------------------------------------------- bounds
MaxProcs == 2        \* worker processes
MaxCampaigns == 2    \* rows the giveaways table can hold
MaxCreated == 1      \* giveaways created through the wizard in one run
MaxUsers == 2        \* platform users
MaxTime == 1         \* last tick of the clock
MaxWinners == 2      \* largest winners_count the wizard is given
MaxCrashes == 1      \* process crashes in one run
MaxAnnounceCalls == 2 \* direct calls of announce_results (SpecAnnounce)
MaxReferrers == 3    \* referrer ids a deep link can name (SpecReferral, SpecTop)
MaxCount == 3        \* largest referral count of one referrer (SpecTop)
MaxSaveCalls == 2    \* direct calls of save_winners per giveaway (SpecSave)
MaxChannels == 2     \* channels a giveaway can require (SpecJoin)
MaxDrawCalls == 2    \* direct calls of run_draw (SpecRunDraw)

Procs == 1..MaxProcs
GIDs == 1..MaxCampaigns
Users == 1..MaxUsers
RefIds == 1..MaxReferrers
Channels == 1..MaxChannels
Types == {"button", "referrals", "comments", "boosts"}

\* the boosts draw never samples more than this many winners (bot.py:828)
BoostCap == 200

\* initData older than this many seconds is stale (bot.py:908)
FreshWindow == 180

VARIABLES
    now,          \* wall clock (UTC), in abstract ticks
    giveaways,    \* table giveaways: sequence of rows, row id = index (AUTOINCREMENT)
    entries,      \* table entries: number of rows per <<giveaway_id, user_id>>
    referrals,    \* table referrals: per <<giveaway_id, referred_id>> the referrer_id of its rows
    winners,      \* table winners: per giveaway its rows [user_id, place]
    posts,        \* per giveaway: the winners lists posted as results messages
    dms,          \* per giveaway: users that received the congratulation message
    up,           \* per process: is it running
    scan,         \* per process: giveaways restore_schedules still has to visit
    bootNow,      \* per process: "now" read once by restore_schedules
    inline,       \* per process: giveaway whose run_draw restore_schedules awaits (0: none)
    timers,       \* per process: giveaways with an armed job "draw-<gid>"
    drawpc,       \* per process and giveaway: position of the run_draw task
    drawWinners,  \* per process and giveaway: local variable winners of run_draw
    joinTask,     \* per process: the join / referral handler suspended at an await
    crashes,      \* number of process crashes so far
    claimWins,    \* history: per giveaway, the run_draw calls whose UPDATE affected a
                  \* row, each by its trigger ("timer" or "recovery")
    lostOn,       \* history: per giveaway, the status found by the latest run_draw call
                  \* whose UPDATE affected no row ("none": no such call)
    saveRuns,     \* history: per giveaway, number of save_winners calls
    announceRuns, \* history: per giveaway, the values returned by the announce_results calls
    cancelAsked,  \* history: per giveaway, its status when "/cancel <id>" arrived ("none": never)
    dupIgnored,   \* history: did an INSERT OR IGNORE INTO entries hit an existing row
    call          \* history: the latest direct call of an operation, with its arguments
                  \* and what it returned (NoCall: none)

store == <<giveaways, entries, referrals, winners>>
outside == <<posts, dms>>
procvars == <<up, scan, bootNow, inline, timers, drawpc, drawWinners, joinTask>>
history == <<claimWins, lostOn, saveRuns, announceRuns, cancelAsked, dupIgnored, call>>
vars == <<now, store, outside, procvars, crashes, history>>

\* ------------------------------------------------------------ store helpers
Range(s) == {s[i] : i \in DOMAIN s}

Exists(gs, gid) == gid \in 1..Len(gs)

\* fetch_giveaway: the row, or None
None == [status |-> "none", type |-> "none", post |-> FALSE]
fetch_giveaway(gs, gid) == IF Exists(gs, gid) THEN gs[gid] ELSE None

SetStatus(gs, gid, st) == [gs EXCEPT ![gid].status = st]


\* (mutant) the UPDATE with WHERE id=? alone: every existing row is affected
claim_rowcount_nowhere(gs, gid) ==
    IF Exists(gs, gid) THEN 1 ELSE 0

\* UPDATE giveaways SET status='drawing' WHERE id=? AND status='scheduled': rowcount
claim_rowcount(gs, gid) ==
    IF Exists(gs, gid) /\ gs[gid].status = "scheduled" THEN 1 ELSE 0

\* (mutant) the UPDATE without the id in its WHERE clause
claim_update_all(gs, gid) ==
    IF claim_rowcount(gs, gid) = 1
    THEN [g \in DOMAIN gs |-> IF gs[g].status = "scheduled"
                              THEN [gs[g] EXCEPT !.status = "drawing"] ELSE gs[g]]
    ELSE gs

\* the table after that UPDATE
claim_update(gs, gid) ==
    IF claim_rowcount(gs, gid) = 1 THEN SetStatus(gs, gid, "drawing") ELSE gs

\* SELECT * FROM giveaways WHERE status='scheduled' ORDER BY end_at_utc ASC (ids)
ActiveIds(gs) == {g \in 1..Len(gs) : gs[g].status = "scheduled"}

RECURSIVE OrderByEnd(_, _)
OrderByEnd(gs, S) ==
    IF S = {} THEN <<>>
    ELSE LET m == CHOOSE g \in S : \A h \in S :
                      \/ gs[g].end_at < gs[h].end_at
                      \/ (gs[g].end_at = gs[h].end_at /\ g <= h)
         IN <<m>> \o OrderByEnd(gs, S \ {m})

list_active_giveaways(gs) == OrderByEnd(gs, ActiveIds(gs))

\* SELECT user_id FROM entries WHERE giveaway_id=?
get_entries(es, gid) == {u \in Users : es[<<gid, u>>] > 0}

\* SELECT COUNT(*) FROM entries WHERE giveaway_id=?
RECURSIVE SumRows(_, _, _)
SumRows(es, gid, S) ==
    IF S = {} THEN 0
    ELSE LET u == CHOOSE x \in S : TRUE
         IN es[<<gid, u>>] + SumRows(es, gid, S \ {u})

count_entries(es, gid) == SumRows(es, gid, Users)

\* (mutant) the lookup that never finds the row
has_entry_never(es, gid, uid) == FALSE

\* SELECT 1 FROM entries WHERE giveaway_id=? AND user_id=?
has_entry(es, gid, uid) == es[<<gid, uid>>] > 0

\* (mutant) a plain INSERT into a table without the primary key
add_entry_nokey(es, gid, uid) ==
    [es EXCEPT ![<<gid, uid>>] = @ + 1]

\* INSERT OR IGNORE INTO entries: the primary key (giveaway_id, user_id) drops a
\* second row for the same pair
add_entry(es, gid, uid) ==
    IF es[<<gid, uid>>] > 0 THEN es ELSE [es EXCEPT ![<<gid, uid>>] = 1]

\* (mutant) save_winners without the DELETE
save_winners_rows_merge(ws, gid, list) ==
    [ws EXCEPT ![gid] = @ \cup {[user_id |-> list[i], place |-> i] : i \in 1..Len(list)}]

\* save_winners numbering the places from the end of the list
save_winners_rows_reversed(ws, gid, list) ==
    [ws EXCEPT ![gid] = {[user_id |-> list[i], place |-> Len(list) + 1 - i] : i \in 1..Len(list)}]

\* save_winners: DELETE the giveaway's winners, INSERT the list with place = index,
\* UPDATE status='finished' (no WHERE on the status), one commit
save_winners_rows(ws, gid, list) ==
    [ws EXCEPT ![gid] = {[user_id |-> list[i], place |-> i] : i \in 1..Len(list)}]

\* get_winners: SELECT user_id FROM winners WHERE giveaway_id=? ORDER BY place ASC
get_winners(ws, gid) ==
    [i \in 1..Cardinality(ws[gid]) |->
        (CHOOSE r \in ws[gid] : Cardinality({q \in ws[gid] : q.place < r.place}) = i - 1).user_id]

\* (mutant) save_winners without its UPDATE of the status
save_winners_status_skip(gs, gid) == gs

save_winners_status(gs, gid) == SetStatus(gs, gid, "finished")

\* ------------------------------------------------------------ winner selection
Min(a, b) == IF a <= b THEN a ELSE b

Injective(s) == \A i, j \in DOMAIN s : s[i] = s[j] => i = j

\* (mutant) k draws with replacement
sample_repeat(pool, k) == [1..k -> pool]

\* random.sample(pool, k): any k distinct members of pool, in any order
sample(pool, k) == {s \in [1..k -> pool] : Injective(s)}

\* run_draw, type button / comments (bot.py:790-797)
select_entries(es, gid, k) ==
    LET pool == get_entries(es, gid)
    IN IF pool = {} THEN {<<>>}
       ELSE sample(pool, Min(k, Cardinality(pool)))

\* k = min(g.winners_count, 200, len(pool)) (bot.py:828)
boost_k(winners_count, pool_size) == Min(Min(winners_count, BoostCap), pool_size)

\* run_draw, type boosts (bot.py:818-829); valid: the entrants for which
\* user_has_valid_boost answers True at draw time
select_boosts(es, gid, k, valid) ==
    LET pool == get_entries(es, gid) \cap valid
    IN IF pool = {} THEN {<<>>}
       ELSE sample(pool, boost_k(k, Cardinality(pool)))

\* (mutant) any boost counts, whenever it was added
user_has_valid_boost_any(boosts, user_id, since) ==
    /\ ~boosts[user_id].raises
    /\ boosts[user_id].dates # {}

\* user_has_valid_boost: boosts[user_id] is what get_user_chat_boosts gives for the
\* user: it raises, or it returns boosts with these add_date values; True iff some
\* boost was added at or after since, False when the call raises
user_has_valid_boost(boosts, user_id, since) ==
    /\ ~boosts[user_id].raises
    /\ \E ad \in boosts[user_id].dates : ad >= since

\* SELECT referrer_id, COUNT(*) c FROM referrals WHERE giveaway_id=? GROUP BY referrer_id
RECURSIVE CountRows(_, _, _, _)
CountRows(rs, gid, uid, S) ==
    IF S = {} THEN 0
    ELSE LET v == CHOOSE x \in S : TRUE
         IN Cardinality({i \in DOMAIN rs[<<gid, v>>] : rs[<<gid, v>>][i] = uid})
            + CountRows(rs, gid, uid, S \ {v})

referral_count(rs, gid, uid) == CountRows(rs, gid, uid, Users)

referral_top(rs, gid) ==
    LET referrers == UNION {Range(rs[<<gid, v>>]) : v \in Users}
    IN [u \in referrers |-> referral_count(rs, gid, u)]

\* (mutant) the buckets visited in ascending order of count
MinOf(S) == CHOOSE x \in S : \A y \in S : x <= y

MaxOf(S) == CHOOSE x \in S : \A y \in S : y <= x

Take(s, n) == IF Len(s) > n THEN SubSeq(s, 1, n) ELSE s

\* the loop over counts_sorted (bot.py:809-815): cnts are the counts not yet
\* visited, selected the list built so far; the result is every list the
\* shuffles can produce
RECURSIVE fill_buckets(_, _, _, _)
fill_buckets(top, cnts, selected, k) ==
    IF cnts = {} THEN {selected}
    ELSE LET cnt == MaxOf(cnts)
             bucket == {u \in DOMAIN top : top[u] = cnt}
             need == k - Len(selected)
         IN IF need <= 0 THEN {selected}
            ELSE UNION {fill_buckets(top, cnts \ {cnt}, selected \o Take(sh, need), k) :
                            sh \in sample(bucket, Cardinality(bucket))}

\* run_draw, type referrals, from the rows of referral_top (bot.py:800-816)
select_top(top, k) ==
    IF DOMAIN top = {} THEN {<<>>}
    ELSE {Take(sel, k) : sel \in fill_buckets(top, {top[u] : u \in DOMAIN top}, <<>>, k)}

\* run_draw, type referrals (bot.py:799-816)
select_referrals(rs, gid, k) == select_top(referral_top(rs, gid), k)

\* the winners lists run_draw can compute for row g (id gid); valid as in select_boosts
select_winners(g, gid, es, rs, valid) ==
    CASE g.type \in {"button", "comments"} -> select_entries(es, gid, g.winners_count)
      [] g.type = "referrals" -> select_referrals(rs, gid, g.winners_count)
      [] g.type = "boosts" -> select_boosts(es, gid, g.winners_count, valid)
      [] OTHER -> {<<>>}

\* (mutant) the INSERT into a table without the primary key
add_referral_nokey(rs, gid, referrer_id, referred_id) ==
    IF referrer_id = referred_id THEN rs
    ELSE [rs EXCEPT ![<<gid, referred_id>>] = Append(@, referrer_id)]

\* INSERT INTO referrals: nothing when referrer = referred; the primary key
\* (giveaway_id, referred_id) makes a second row for the pair raise, which is passed over
add_referral(rs, gid, referrer_id, referred_id) ==
    IF referrer_id = referred_id THEN rs
    ELSE IF rs[<<gid, referred_id>>] # <<>> THEN rs
    ELSE [rs EXCEPT ![<<gid, referred_id>>] = Append(@, referrer_id)]

\* ------------------------------------------------------------------ Init
NoTask == [kind |-> "none"]
NoDraw == [g \in GIDs |-> "none"]
NoList == [g \in GIDs |-> <<>>]
NoRows == [g \in GIDs |-> {}]
NoCall == [op |-> "none"]

Init ==
    /\ now = 0
    /\ giveaways = <<>>
    /\ entries = [x \in GIDs \X Users |-> 0]
    /\ referrals = [x \in GIDs \X Users |-> <<>>]
    /\ winners = NoRows
    /\ posts = NoList
    /\ dms = [g \in GIDs |-> {}]
    /\ up = [p \in Procs |-> FALSE]
    /\ scan = [p \in Procs |-> <<>>]
    /\ bootNow = [p \in Procs |-> 0]
    /\ inline = [p \in Procs |-> 0]
    /\ timers = [p \in Procs |-> {}]
    /\ drawpc = [p \in Procs |-> NoDraw]
    /\ drawWinners = [p \in Procs |-> NoList]
    /\ joinTask = [p \in Procs |-> NoTask]
    /\ crashes = 0
    /\ claimWins = NoList
    /\ lostOn = NoDraw
    /\ saveRuns = [g \in GIDs |-> 0]
    /\ announceRuns = NoList
    /\ cancelAsked = NoDraw
    /\ dupIgnored = FALSE
    /\ call = NoCall

\* ------------------------------------------------------------------ actions
\* the clock
Tick ==
    /\ now < MaxTime
    /\ now' = now + 1
    /\ UNCHANGED <<store, outside, procvars, crashes, history>>

\* schedule_draw_job: arm the job "draw-<gid>" when the row is scheduled
schedule_draw_job(ts, gs, gid) ==
    IF fetch_giveaway(gs, gid).status = "scheduled" THEN ts \cup {gid} ELSE ts

\* g_confirm: INSERT the row as scheduled, publish the post and store its message
\* id (post), arm the timer; when publishing raises, the handler returns before
\* the row gets the post and before schedule_draw_job
g_confirm(p, type, k, end) ==
    /\ up[p]
    /\ Len(giveaways) < MaxCreated
    /\ end > now
    /\ \E published \in BOOLEAN :
          LET gid == Len(giveaways) + 1
              gs == Append(giveaways, [status |-> "scheduled", type |-> type,
                                       winners_count |-> k, start_at |-> now, end_at |-> end,
                                       post |-> published])
          IN /\ giveaways' = gs
             /\ timers' = [timers EXCEPT ![p] =
                              IF published THEN schedule_draw_job(@, gs, gid) ELSE @]
    /\ UNCHANGED <<now, entries, referrals, winners, outside, up, scan, bootNow, inline,
                   drawpc, drawWinners, joinTask, crashes, history>>

\* run_draw, lines 772-782: the claim, called from the trigger path ("timer" or
\* "recovery").  Sets giveaways, drawpc, claimWins, lostOn.
run_draw_claim(p, gid, path) ==
    /\ giveaways' = claim_update(giveaways, gid)
    /\ IF claim_rowcount(giveaways, gid) = 0
       THEN /\ lostOn' = [lostOn EXCEPT ![gid] = fetch_giveaway(giveaways, gid).status]
            /\ UNCHANGED <<claimWins, drawpc>>
       ELSE /\ claimWins' = [claimWins EXCEPT ![gid] = Append(@, path)]
            /\ drawpc' = [drawpc EXCEPT ![p][gid] = "claimed"]
            /\ UNCHANGED lostOn

\* restore_schedules moves to the next giveaway; its local "now" ends with the loop
PopScan(p) ==
    /\ scan' = [scan EXCEPT ![p] = Tail(@)]
    /\ bootNow' = [bootNow EXCEPT ![p] = IF Tail(scan[p]) = <<>> THEN 0 ELSE @]

\* main: a process starts; restore_schedules reads the active giveaways and the clock
StartProcess(p) ==
    /\ ~up[p]
    /\ up' = [up EXCEPT ![p] = TRUE]
    /\ scan' = [scan EXCEPT ![p] = list_active_giveaways(giveaways)]
    /\ bootNow' = [bootNow EXCEPT ![p] = IF list_active_giveaways(giveaways) = <<>> THEN 0 ELSE now]
    /\ UNCHANGED <<now, store, outside, inline, timers, drawpc, drawWinners, joinTask, crashes,
                   history>>

\* restore_schedules, one turn of the loop: a passed deadline runs the draw now
\* (awaited), a future one arms the timer
RestoreStep(p) ==
    /\ up[p]
    /\ scan[p] # <<>>
    /\ inline[p] = 0
    /\ LET gid == Head(scan[p])
       IN IF giveaways[gid].end_at <= bootNow[p]
          THEN /\ run_draw_claim(p, gid, "recovery")
               /\ IF claim_rowcount(giveaways, gid) = 0
                  THEN PopScan(p) /\ UNCHANGED inline
                  ELSE inline' = [inline EXCEPT ![p] = gid] /\ UNCHANGED <<scan, bootNow>>
               /\ UNCHANGED timers
          ELSE /\ timers' = [timers EXCEPT ![p] = schedule_draw_job(@, giveaways, gid)]
               /\ PopScan(p)
               /\ UNCHANGED <<giveaways, inline, drawpc, claimWins, lostOn>>
    /\ UNCHANGED <<now, entries, referrals, winners, outside, up, drawWinners,
                   joinTask, crashes, saveRuns, announceRuns, cancelAsked, dupIgnored, call>>

\* (mutant) a trigger that fires whatever the clock says
run_date_ignored(gs, gid, t) == TRUE

\* DateTrigger(run_date=end_dt_utc): the job is due from the giveaway's end on
run_date_reached(gs, gid, t) == gs[gid].end_at <= t

\* the job "draw-<gid>" fires at its run date and calls run_draw
TimerFire(p, gid) ==
    /\ up[p]
    /\ gid \in timers[p]
    /\ run_date_reached(giveaways, gid, now)
    /\ timers' = [timers EXCEPT ![p] = @ \ {gid}]
    /\ run_draw_claim(p, gid, "timer")
    /\ UNCHANGED <<now, entries, referrals, winners, outside, up, scan, bootNow, inline,
                   drawWinners, joinTask, crashes, saveRuns, announceRuns, cancelAsked,
                   dupIgnored, call>>

\* run_draw, lines 784-829: fetch the row, build the pool, pick the winners
DrawSelect(p, gid) ==
    /\ up[p]
    /\ drawpc[p][gid] = "claimed"
    /\ \E valid \in SUBSET get_entries(entries, gid) :
       \E list \in select_winners(fetch_giveaway(giveaways, gid), gid, entries, referrals, valid) :
          drawWinners' = [drawWinners EXCEPT ![p][gid] = list]
    /\ drawpc' = [drawpc EXCEPT ![p][gid] = "selected"]
    /\ UNCHANGED <<now, store, outside, up, scan, bootNow, inline, timers, joinTask, crashes,
                   history>>

\* run_draw, line 831 (794, 802, 826 for an empty pool): save_winners
DrawSave(p, gid) ==
    /\ up[p]
    /\ drawpc[p][gid] = "selected"
    /\ winners' = save_winners_rows(winners, gid, drawWinners[p][gid])
    /\ giveaways' = save_winners_status(giveaways, gid)
    /\ saveRuns' = [saveRuns EXCEPT ![gid] = @ + 1]
    /\ drawpc' = [drawpc EXCEPT ![p][gid] = "saved"]
    /\ UNCHANGED <<now, entries, referrals, outside, up, scan, bootNow, inline, timers,
                   drawWinners, joinTask, crashes, claimWins, lostOn, announceRuns,
                   cancelAsked, dupIgnored, call>>

\* (mutant) the loop over the winners ends at the first send that raises
announce_notify_stop(ds, gid, list, failed) ==
    [ds EXCEPT ![gid] = @ \cup {list[i] : i \in {j \in 1..Len(list) :
                                                  \A h \in 1..j : list[h] \notin failed}}]

\* announce_results(g, winners): post the results message (sent: the send did not
\* raise; a failure is logged), then message every winner (failed: the winners
\* whose send raised; a failure is passed over).  No return statement: None.
announce_post(ps, gid, list, sent) ==
    [ps EXCEPT ![gid] = IF sent THEN Append(@, list) ELSE @]

announce_notify(ds, gid, list, failed) ==
    [ds EXCEPT ![gid] = @ \cup (Range(list) \ failed)]

\* one run of announce_results with these outcomes of its sends
announce_outcome(gid, list, sent, failed) ==
    /\ posts' = announce_post(posts, gid, list, sent)
    /\ dms' = announce_notify(dms, gid, list, failed)
    /\ announceRuns' = [announceRuns EXCEPT ![gid] = Append(@, "None")]

announce_results(gid, list) ==
    \E sent \in BOOLEAN, failed \in SUBSET Range(list) : announce_outcome(gid, list, sent, failed)

\* run_draw, line 832 (795, 803, 827 for an empty pool): announce_results, return
run_draw_announce(p, gid, sent, failed) ==
    /\ up[p]
    /\ drawpc[p][gid] = "saved"
    /\ announce_outcome(gid, drawWinners[p][gid], sent, failed)
    /\ drawpc' = [drawpc EXCEPT ![p][gid] = "none"]
    /\ drawWinners' = [drawWinners EXCEPT ![p][gid] = <<>>]
    /\ IF inline[p] = gid
       THEN inline' = [inline EXCEPT ![p] = 0] /\ PopScan(p)
       ELSE UNCHANGED <<inline, scan, bootNow>>
    /\ UNCHANGED <<now, store, up, timers, joinTask, crashes, claimWins, lostOn,
                   saveRuns, cancelAsked, dupIgnored>>

DrawAnnounce(p, gid) ==
    /\ \E sent \in BOOLEAN, failed \in SUBSET Range(drawWinners[p][gid]) :
          run_draw_announce(p, gid, sent, failed)
    /\ UNCHANGED call

\* a participation handler up to its first await on the platform: api_join and
\* on_webapp_data (button), catch_comments (comments), cb_boost (boosts).  The row
\* must be scheduled and of the handler's type; catch_comments finds the row by
\* the post the comment replies to; api_join, on_webapp_data and catch_comments
\* stop when has_entry finds the user.
JoinBegin(p, gid, uid) ==
    /\ up[p]
    /\ joinTask[p] = NoTask
    /\ LET g == fetch_giveaway(giveaways, gid)
       IN /\ g.status = "scheduled"
          /\ g.type \in {"button", "comments", "boosts"}
          /\ g.type = "comments" => g.post
          /\ g.type \in {"button", "comments"} => ~has_entry(entries, gid, uid)
    /\ joinTask' = [joinTask EXCEPT ![p] = [kind |-> "entry", gid |-> gid, uid |-> uid]]
    /\ UNCHANGED <<now, store, outside, up, scan, bootNow, inline, timers, drawpc,
                   drawWinners, crashes, history>>

\* cmd_start with the deep link ref-<gid>-<ref>, up to the await of add_referral
RefBegin(p, gid, ref, uid) ==
    /\ up[p]
    /\ joinTask[p] = NoTask
    /\ LET g == fetch_giveaway(giveaways, gid)
       IN g.status = "scheduled" /\ g.type = "referrals"
    /\ joinTask' = [joinTask EXCEPT ![p] =
                        [kind |-> "referral", gid |-> gid, uid |-> uid, ref |-> ref]]
    /\ UNCHANGED <<now, store, outside, up, scan, bootNow, inline, timers, drawpc,
                   drawWinners, crashes, history>>

\* the rest of the handler: check_requirements (and user_has_valid_boost) answer
\* ok or not, then add_entry; for a referral, add_referral
JoinEnd(p) ==
    /\ up[p]
    /\ joinTask[p] # NoTask
    /\ LET t == joinTask[p]
       IN IF t.kind = "entry"
          THEN /\ \E ok \in BOOLEAN :
                     /\ entries' = IF ok THEN add_entry(entries, t.gid, t.uid) ELSE entries
                     /\ dupIgnored' = (dupIgnored \/ (ok /\ has_entry(entries, t.gid, t.uid)))
               /\ UNCHANGED referrals
          ELSE /\ referrals' = add_referral(referrals, t.gid, t.ref, t.uid)
               /\ UNCHANGED <<entries, dupIgnored>>
    /\ joinTask' = [joinTask EXCEPT ![p] = NoTask]
    /\ UNCHANGED <<now, giveaways, winners, outside, up, scan, bootNow, inline, timers,
                   drawpc, drawWinners, crashes, claimWins, lostOn, saveRuns, announceRuns,
                   cancelAsked, call>>

\* the message "/cancel <gid>": the start text (bot.py:384) names the command, no
\* handler is registered for it, so the message reaches the catch-all
\* catch_comments, which returns for a message that is no reply; the store is untouched
CancelCommand(p, gid) ==
    /\ up[p]
    /\ cancelAsked[gid] = "none"
    /\ fetch_giveaway(giveaways, gid).status \in {"scheduled", "drawing"}
    /\ cancelAsked' = [cancelAsked EXCEPT ![gid] = fetch_giveaway(giveaways, gid).status]
    /\ UNCHANGED <<now, store, outside, procvars, crashes, claimWins, lostOn, saveRuns,
                   announceRuns, dupIgnored, call>>

\* a process dies: its timers and running tasks are gone, the store stays
Crash(p) ==
    /\ up[p]
    /\ crashes < MaxCrashes
    /\ crashes' = crashes + 1
    /\ up' = [up EXCEPT ![p] = FALSE]
    /\ scan' = [scan EXCEPT ![p] = <<>>]
    /\ inline' = [inline EXCEPT ![p] = 0]
    /\ timers' = [timers EXCEPT ![p] = {}]
    /\ drawpc' = [drawpc EXCEPT ![p] = NoDraw]
    /\ drawWinners' = [drawWinners EXCEPT ![p] = NoList]
    /\ joinTask' = [joinTask EXCEPT ![p] = NoTask]
    /\ bootNow' = [bootNow EXCEPT ![p] = 0]
    /\ UNCHANGED <<now, store, outside, history>>

Next ==
    \/ Tick
    \/ \E p \in Procs, type \in Types, k \in 1..MaxWinners, end \in 1..MaxTime :
          g_confirm(p, type, k, end)
    \/ \E p \in Procs : StartProcess(p)
    \/ \E p \in Procs : RestoreStep(p)
    \/ \E p \in Procs, gid \in GIDs : TimerFire(p, gid)
    \/ \E p \in Procs, gid \in GIDs : DrawSelect(p, gid)
    \/ \E p \in Procs, gid \in GIDs : DrawSave(p, gid)
    \/ \E p \in Procs, gid \in GIDs : DrawAnnounce(p, gid)
    \/ \E p \in Procs, gid \in GIDs, uid \in Users : JoinBegin(p, gid, uid)
    \/ \E p \in Procs, gid \in GIDs, ref \in Users, uid \in Users : RefBegin(p, gid, ref, uid)
    \/ \E p \in Procs : JoinEnd(p)
    \/ \E p \in Procs : Crash(p)

\* the program from its first start: wizard, participation handlers, timers,
\* startup recovery, draws, crashes
Spec == Init /\ [][Next]_vars

\* the wizard, the timers, the startup scan and the draws, with the operator
\* sending "/cancel <id>"
NextCancel ==
    \/ Tick
    \/ \E p \in Procs, type \in Types, k \in 1..MaxWinners, end \in 1..MaxTime :
          g_confirm(p, type, k, end)
    \/ \E p \in Procs : StartProcess(p)
    \/ \E p \in Procs : RestoreStep(p)
    \/ \E p \in Procs, gid \in GIDs : TimerFire(p, gid)
    \/ \E p \in Procs, gid \in GIDs : DrawSelect(p, gid)
    \/ \E p \in Procs, gid \in GIDs : DrawSave(p, gid)
    \/ \E p \in Procs, gid \in GIDs : DrawAnnounce(p, gid)
    \/ \E p \in Procs, gid \in GIDs : CancelCommand(p, gid)

SpecCancel == Init /\ [][NextCancel]_vars

\* ------------------------------------------------ announce_results called directly
\* The store after save_winners committed and the process died before
\* announce_results (the processes are up again): giveaway 1 is finished, its
\* winners are stored, nothing is announced.
InitAnnounce ==
    /\ now = MaxTime
    /\ \E type \in Types, k \in 1..MaxWinners, joined \in SUBSET Users :
          /\ giveaways = <<[status |-> "finished", type |-> type, winners_count |-> k,
                            start_at |-> 0, end_at |-> MaxTime, post |-> TRUE]>>
          /\ entries = [x \in GIDs \X Users |->
                           IF x[1] = 1 /\ x[2] \in joined /\ type # "referrals" THEN 1 ELSE 0]
          /\ referrals = [x \in GIDs \X Users |-> <<>>]
          /\ \E valid \in SUBSET joined :
             \E list \in select_winners(giveaways[1], 1, entries, referrals, valid) :
                winners = save_winners_rows(NoRows, 1, list)
    /\ posts = NoList
    /\ dms = [g \in GIDs |-> {}]
    /\ up = [p \in Procs |-> TRUE]
    /\ scan = [p \in Procs |-> <<>>]
    /\ bootNow = [p \in Procs |-> 0]
    /\ inline = [p \in Procs |-> 0]
    /\ timers = [p \in Procs |-> {}]
    /\ drawpc = [p \in Procs |-> NoDraw]
    /\ drawWinners = [p \in Procs |-> NoList]
    /\ joinTask = [p \in Procs |-> NoTask]
    /\ crashes = 1
    /\ claimWins = [NoList EXCEPT ![1] = <<"timer">>]
    /\ lostOn = NoDraw
    /\ saveRuns = [g \in GIDs |-> IF g = 1 THEN 1 ELSE 0]
    /\ announceRuns = NoList
    /\ cancelAsked = NoDraw
    /\ dupIgnored = FALSE
    /\ call = NoCall

\* one call announce_results(g, get_winners(g.id))
AnnounceCall(gid) ==
    /\ fetch_giveaway(giveaways, gid).status = "finished"
    /\ Len(announceRuns[gid]) < MaxAnnounceCalls
    /\ announce_results(gid, get_winners(winners, gid))
    /\ UNCHANGED <<now, store, procvars, crashes, claimWins, lostOn, saveRuns, cancelAsked,
                   dupIgnored, call>>

NextAnnounce == \E gid \in GIDs : AnnounceCall(gid)

SpecAnnounce == InitAnnounce /\ [][NextAnnounce]_vars

\* ---------------------------------------------------- operations called directly
\* every process is up and idle, nothing was drawn or announced
Idle ==
    /\ posts = NoList
    /\ dms = [g \in GIDs |-> {}]
    /\ up = [p \in Procs |-> TRUE]
    /\ scan = [p \in Procs |-> <<>>]
    /\ bootNow = [p \in Procs |-> 0]
    /\ inline = [p \in Procs |-> 0]
    /\ timers = [p \in Procs |-> {}]
    /\ drawpc = [p \in Procs |-> NoDraw]
    /\ drawWinners = [p \in Procs |-> NoList]
    /\ joinTask = [p \in Procs |-> NoTask]
    /\ crashes = 0
    /\ claimWins = NoList
    /\ lostOn = NoDraw
    /\ saveRuns = [g \in GIDs |-> 0]
    /\ announceRuns = NoList
    /\ cancelAsked = NoDraw
    /\ dupIgnored = FALSE

\* a giveaways row as the wizard inserts it
Row(type, k) ==
    [status |-> "scheduled", type |-> type, winners_count |-> k, start_at |-> 0,
     end_at |-> MaxTime, post |-> TRUE]

\* ---- add_referral: two referral giveaways, no referral yet
InitReferral ==
    /\ now = 0
    /\ \E k \in 1..MaxWinners : giveaways = [g \in GIDs |-> Row("referrals", k)]
    /\ entries = [x \in GIDs \X Users |-> 0]
    /\ referrals = [x \in GIDs \X Users |-> <<>>]
    /\ winners = NoRows
    /\ Idle
    /\ call = NoCall

\* one call add_referral(gid, referrer_id, referred_id); had: the rows of the
\* referred user before the call
AddReferralCall(gid, referrer_id, referred_id) ==
    /\ referrals' = add_referral(referrals, gid, referrer_id, referred_id)
    /\ call' = [op |-> "add_referral", gid |-> gid, referrer_id |-> referrer_id,
                referred_id |-> referred_id, had |-> referrals[<<gid, referred_id>>]]
    /\ UNCHANGED <<now, giveaways, entries, winners, outside, procvars, crashes, claimWins,
                   lostOn, saveRuns, announceRuns, cancelAsked, dupIgnored>>

NextReferral ==
    \E gid \in GIDs, referrer_id \in RefIds, referred_id \in Users :
        AddReferralCall(gid, referrer_id, referred_id)

SpecReferral == InitReferral /\ [][NextReferral]_vars

\* ---- run_draw after the claim: giveaway 1 was claimed by the timer of process 1,
\* the entries and referrals are what the handlers left
InitDraw ==
    /\ now = MaxTime
    /\ \E type \in Types, k \in 1..MaxWinners :
          giveaways = <<[Row(type, k) EXCEPT !.status = "drawing"], Row(type, k)>>
    /\ entries \in [GIDs \X Users -> {0, 1}]
    /\ \E rs \in [Users -> {<<>>} \cup {<<r>> : r \in RefIds}] :
          /\ \A u \in Users : u \notin Range(rs[u])
          /\ referrals = [x \in GIDs \X Users |-> IF x[1] = 1 THEN rs[x[2]] ELSE <<>>]
    /\ winners = NoRows
    /\ posts = NoList
    /\ dms = [g \in GIDs |-> {}]
    /\ up = [p \in Procs |-> TRUE]
    /\ scan = [p \in Procs |-> <<>>]
    /\ bootNow = [p \in Procs |-> 0]
    /\ inline = [p \in Procs |-> 0]
    /\ timers = [p \in Procs |-> {}]
    /\ drawpc = [p \in Procs |-> IF p = 1 THEN [NoDraw EXCEPT ![1] = "claimed"] ELSE NoDraw]
    /\ drawWinners = [p \in Procs |-> NoList]
    /\ joinTask = [p \in Procs |-> NoTask]
    /\ crashes = 0
    /\ claimWins = [NoList EXCEPT ![1] = <<"timer">>]
    /\ lostOn = NoDraw
    /\ saveRuns = [g \in GIDs |-> 0]
    /\ announceRuns = NoList
    /\ cancelAsked = NoDraw
    /\ dupIgnored = FALSE
    /\ call = NoCall

NextDraw ==
    \/ \E p \in Procs, gid \in GIDs : DrawSelect(p, gid)
    \/ \E p \in Procs, gid \in GIDs : DrawSave(p, gid)
    \/ \E p \in Procs, gid \in GIDs : DrawAnnounce(p, gid)

SpecDraw == InitDraw /\ [][NextDraw]_vars

\* ---- the referrals selection on a given result of referral_top: top maps each
\* referrer to its count
EmptyStore ==
    /\ giveaways = <<>>
    /\ entries = [x \in GIDs \X Users |-> 0]
    /\ referrals = [x \in GIDs \X Users |-> <<>>]
    /\ winners = NoRows

InitTop ==
    /\ now = 0
    /\ EmptyStore
    /\ Idle
    /\ \E S \in SUBSET RefIds, k \in 1..MaxWinners :
       \E top \in [S -> 1..MaxCount] :
          call = [op |-> "select_top", top |-> top, k |-> k, done |-> FALSE, out |-> <<>>]

SelectTopCall ==
    /\ call.op = "select_top"
    /\ ~call.done
    /\ \E out \in select_top(call.top, call.k) :
          call' = [call EXCEPT !.done = TRUE, !.out = out]
    /\ UNCHANGED <<now, store, outside, procvars, crashes, claimWins, lostOn, saveRuns,
                   announceRuns, cancelAsked, dupIgnored>>

NextTop == SelectTopCall

SpecTop == InitTop /\ [][NextTop]_vars

\* ---- the boosts selection: giveaway 1 is a claimed boosts giveaway; the call
\* holds what get_user_chat_boosts answers for each user at draw time
BoostInfo == [raises : BOOLEAN, dates : SUBSET (0..MaxTime)]

\* pool sizes and winners counts around the cap, for the size computation alone
BoostSizes == {1, BoostCap - 1, BoostCap, BoostCap + 1}

InitBoost ==
    /\ now = MaxTime
    /\ \E k \in 1..MaxWinners, start \in 0..MaxTime :
          giveaways = <<[Row("boosts", k) EXCEPT !.status = "drawing", !.start_at = start]>>
    /\ \E joined \in SUBSET Users :
          entries = [x \in GIDs \X Users |-> IF x[1] = 1 /\ x[2] \in joined THEN 1 ELSE 0]
    /\ referrals = [x \in GIDs \X Users |-> <<>>]
    /\ winners = NoRows
    /\ Idle
    /\ \/ \E boosts \in [Users -> BoostInfo] :
             call = [op |-> "select_boosts", boosts |-> boosts, done |-> FALSE, out |-> <<>>]
       \/ \E wc \in BoostSizes, n \in BoostSizes :
             call = [op |-> "boost_k", winners_count |-> wc, pool_size |-> n,
                     done |-> FALSE, k |-> 0]

\* run_draw lines 818-829 on giveaway 1
SelectBoostsCall ==
    /\ call.op = "select_boosts"
    /\ ~call.done
    /\ LET g == giveaways[1]
           valid == {u \in Users : user_has_valid_boost(call.boosts, u, g.start_at)}
       IN \E out \in select_boosts(entries, 1, g.winners_count, valid) :
             call' = [call EXCEPT !.done = TRUE, !.out = out]
    /\ UNCHANGED <<now, store, outside, procvars, crashes, claimWins, lostOn, saveRuns,
                   announceRuns, cancelAsked, dupIgnored>>

\* run_draw line 828 alone
BoostSizeCall ==
    /\ call.op = "boost_k"
    /\ ~call.done
    /\ call' = [call EXCEPT !.done = TRUE, !.k = boost_k(call.winners_count, call.pool_size)]
    /\ UNCHANGED <<now, store, outside, procvars, crashes, claimWins, lostOn, saveRuns,
                   announceRuns, cancelAsked, dupIgnored>>

NextBoost ==
    \/ SelectBoostsCall
    \/ BoostSizeCall

SpecBoost == InitBoost /\ [][NextBoost]_vars

\* ---- save_winners called directly: every giveaway holds the winners of an
\* earlier run (none for one still drawing)
WinnerLists == UNION {sample(Users, k) : k \in 0..MaxWinners}

InitSave ==
    /\ now = MaxTime
    /\ \E old \in [GIDs -> WinnerLists] :
          /\ giveaways = [g \in GIDs |->
                [Row("button", MaxWinners) EXCEPT
                    !.status = IF old[g] = <<>> THEN "drawing" ELSE "finished"]]
          /\ winners = [g \in GIDs |-> save_winners_rows(NoRows, g, old[g])[g]]
    /\ entries = [x \in GIDs \X Users |-> 1]
    /\ referrals = [x \in GIDs \X Users |-> <<>>]
    /\ Idle
    /\ call = NoCall

\* one call save_winners(gid, list); before: the winners table before the call
SaveWinnersCall(gid, list) ==
    /\ saveRuns[gid] < MaxSaveCalls
    /\ winners' = save_winners_rows(winners, gid, list)
    /\ giveaways' = save_winners_status(giveaways, gid)
    /\ saveRuns' = [saveRuns EXCEPT ![gid] = @ + 1]
    /\ call' = [op |-> "save_winners", gid |-> gid, list |-> list, before |-> winners]
    /\ UNCHANGED <<now, entries, referrals, outside, procvars, crashes, claimWins, lostOn,
                   announceRuns, cancelAsked, dupIgnored>>

NextSave == \E gid \in GIDs, list \in WinnerLists : SaveWinnersCall(gid, list)

SpecSave == InitSave /\ [][NextSave]_vars

\* ------------------------------------------------------------ mini-app auth
\* initData as parse_qsl reads it: the fields hash, user and auth_date, each
\* absent or with a value.  A field is [kind, v]:
\*   user       "absent" | "blank" | "garbage" (no JSON) | "noid" (JSON without a
\*              usable id) | "id" (JSON object whose id is v)
\*   auth_date  "absent" | "garbage" (int() raises) | "int" (the integer v)
\* and hash is "absent", "blank" or an HMAC hex digest [kind |-> "hmac", key,
\* data, flip]: the digest of data under key, with one character changed when flip.
Field(kind, v) == [kind |-> kind, v |-> v]
Absent == Field("absent", 0)

BOT_TOKEN == "bot"

UserFields ==
    {Absent, Field("blank", 0), Field("garbage", 0), Field("noid", 0)}
        \cup {Field("id", u) : u \in Users}

DateFields == {Absent, Field("garbage", 0)} \cup {Field("int", d) : d \in 0..MaxTime}

\* filtered, sorted by key, as "k=v" joined by newlines: the present fields other
\* than hash, auth_date before user
data_check_string(user, auth_date) ==
    (IF auth_date.kind = "absent" THEN <<>> ELSE <<<<"auth_date", auth_date>>>>)
        \o (IF user.kind = "absent" THEN <<>> ELSE <<<<"user", user>>>>)

\* _calc_webapp_hash: HMAC-SHA256 of the string under the key derived from the token
calc_webapp_hash(dcs, bot_token) ==
    [kind |-> "hmac", key |-> bot_token, data |-> dcs, flip |-> FALSE]

HashFields ==
    {Absent, Field("blank", 0)}
        \cup {[calc_webapp_hash(data_check_string(u, d), key) EXCEPT !.flip = f] :
                 u \in UserFields, d \in DateFields, key \in {BOT_TOKEN, "other"},
                 f \in BOOLEAN}

InitData == [hash : HashFields, user : UserFields, auth_date : DateFields]

\* (mutant) a comparison that passes over one differing character
compare_digest_loose(a, b) == a.key = b.key /\ a.data = b.data

\* hmac.compare_digest
compare_digest(a, b) == a = b

\* validate_webapp_init at time t: [uid, reason]; uid 0 stands for None (user ids
\* are positive)
validate_webapp_init(init, bot_token, t) ==
    LET got_hash == init.hash
        user_json == init.user
        auth_date == IF init.auth_date.kind = "int" THEN init.auth_date ELSE Absent
    IN IF got_hash.kind \in {"absent", "blank"}
          THEN [uid |-> 0, reason |-> "no_hash"]
       ELSE IF ~compare_digest(
                  calc_webapp_hash(data_check_string(init.user, init.auth_date), bot_token),
                  got_hash)
          THEN [uid |-> 0, reason |-> "bad_signature"]
       ELSE IF auth_date.kind = "int" /\ t - auth_date.v > FreshWindow
          THEN [uid |-> 0, reason |-> "stale"]
       ELSE IF user_json.kind \in {"absent", "blank"}
          THEN [uid |-> 0, reason |-> "bad_user"]
       ELSE IF user_json.kind = "id"
          THEN [uid |-> user_json.v, reason |-> "ok"]
       ELSE [uid |-> 0, reason |-> "bad_user"]

\* ---- validate_webapp_init called directly, at a time at the edge of the window
InitAuth ==
    /\ now \in {FreshWindow, FreshWindow + 1}
    /\ EmptyStore
    /\ Idle
    /\ \E init \in InitData :
          call = [op |-> "validate_webapp_init", init |-> init, done |-> FALSE,
                  uid |-> 0, reason |-> ""]

ValidateCall ==
    /\ call.op = "validate_webapp_init"
    /\ ~call.done
    /\ LET r == validate_webapp_init(call.init, BOT_TOKEN, now)
       IN call' = [call EXCEPT !.done = TRUE, !.uid = r.uid, !.reason = r.reason]
    /\ UNCHANGED <<now, store, outside, procvars, crashes, claimWins, lostOn, saveRuns,
                   announceRuns, cancelAsked, dupIgnored>>

NextAuth == ValidateCall

SpecAuth == InitAuth /\ [][NextAuth]_vars

\* ------------------------------------------------------------ mini-app join
\* check_requirements: passing are the required channels for which get_chat_member
\* answered with a member status; the others (left, or the call raised) fail
check_requirements(required, passing) ==
    LET failed == required \ passing
    IN [ok |-> failed = {}, failed |-> failed]

\* (mutant) the endpoint open to every scheduled giveaway
join_open_any_type(g) == g.status = "scheduled"

\* api_join line 1010: the row exists, is scheduled and of type button
join_open(g) == g.status = "scheduled" /\ g.type = "button"

\* the empty string as initData: no field at all
NoInit == [hash |-> Absent, user |-> Absent, auth_date |-> Absent]

\* a request body: json is FALSE when request.json() raises; gid 0 stands for a
\* missing or zero gid
Request(json, gid, init) == [json |-> json, gid |-> gid, init |-> init]

Response(http, ok, reason, total, need) ==
    [http |-> http, ok |-> ok, reason |-> reason, total |-> total, need |-> need]

\* api_join as one handler run at time t: the response, the validated uid and the
\* entries table it leaves
api_join(gs, es, req, passing, t) ==
    LET v == validate_webapp_init(req.init, BOT_TOKEN, t)
        uid == v.uid
        gid == req.gid
        g == fetch_giveaway(gs, gid)
    IN IF ~req.json
          THEN [resp |-> Response(400, FALSE, "bad json", 0, {}), uid |-> 0, entries |-> es]
       ELSE IF gid = 0 \/ req.init = NoInit
          THEN [resp |-> Response(400, FALSE, "bad params", 0, {}), uid |-> 0, entries |-> es]
       ELSE IF uid = 0
          THEN [resp |-> Response(401, FALSE, v.reason, 0, {}), uid |-> 0, entries |-> es]
       ELSE IF ~join_open(g)
          THEN [resp |-> Response(404, FALSE, "unavailable", 0, {}), uid |-> uid,
                entries |-> es]
       ELSE IF has_entry(es, gid, uid)
          THEN [resp |-> Response(200, TRUE, "", count_entries(es, gid), {}), uid |-> uid,
                entries |-> es]
       ELSE IF ~check_requirements(g.required, passing).ok
          THEN [resp |-> Response(200, FALSE, "conditions", 0,
                                  check_requirements(g.required, passing).failed),
                uid |-> uid, entries |-> es]
       ELSE [resp |-> Response(200, TRUE, "", count_entries(add_entry(es, gid, uid), gid), {}),
             uid |-> uid, entries |-> add_entry(es, gid, uid)]

\* the payloads sent to the endpoint: signed by the bot (right, or with one
\* character of the digest changed) or unsigned, for a user or for none, issued at
\* some time; and the empty string
JoinInits ==
    {init \in InitData :
        /\ init.user.kind \in {"absent", "id"}
        /\ init.auth_date.kind = "int"
        /\ init.hash.kind \in {"absent", "hmac"}
        /\ init.hash.kind = "hmac" =>
              /\ init.hash.key = BOT_TOKEN
              /\ init.hash.data = data_check_string(init.user, init.auth_date)}
        \cup {NoInit}

Requests ==
    {Request(TRUE, gid, init) : gid \in 0..MaxCampaigns, init \in JoinInits}
        \cup {Request(FALSE, 0, NoInit)}

\* ---- api_join called in sequence: one giveaway of any type and status with its
\* required channels, nobody has joined; the clock is past the freshness window
InitJoin ==
    /\ now = FreshWindow + 1
    /\ \E type \in Types, status \in {"scheduled", "drawing", "finished"},
          required \in SUBSET Channels :
          giveaways = <<[status |-> status, type |-> type, winners_count |-> MaxWinners,
                         start_at |-> 0, end_at |-> FreshWindow + 2, post |-> TRUE,
                         required |-> required]>>
    /\ entries = [x \in GIDs \X Users |-> 0]
    /\ referrals = [x \in GIDs \X Users |-> <<>>]
    /\ winners = NoRows
    /\ Idle
    /\ call = NoCall

\* one request to /api/join; before: the entries table before the request
ApiJoinCall(req, passing) ==
    /\ LET r == api_join(giveaways, entries, req, passing, now)
       IN /\ entries' = r.entries
          /\ call' = [op |-> "api_join", req |-> req, passing |-> passing, uid |-> r.uid,
                      resp |-> r.resp, before |-> entries]
    /\ UNCHANGED <<now, giveaways, referrals, winners, outside, procvars, crashes, claimWins,
                   lostOn, saveRuns, announceRuns, cancelAsked, dupIgnored>>

NextJoin == \E req \in Requests, passing \in SUBSET Channels : ApiJoinCall(req, passing)

SpecJoin == InitJoin /\ [][NextJoin]_vars

\* ---- run_draw after the claim, with failing calls: giveaway 1 was claimed by
\* process 1, from its timer or from its startup scan; call logs what the run met
InitFault ==
    /\ now = MaxTime
    /\ \E type \in Types, k \in 1..MaxWinners :
          giveaways = <<[Row(type, k) EXCEPT !.status = "drawing"]>>
    /\ \E joined \in SUBSET Users :
          entries = [x \in GIDs \X Users |-> IF x[1] = 1 /\ x[2] \in joined THEN 1 ELSE 0]
    /\ \E rs \in [Users -> {<<>>} \cup {<<r>> : r \in RefIds}] :
          /\ \A u \in Users : u \notin Range(rs[u])
          /\ referrals = [x \in GIDs \X Users |-> IF x[1] = 1 THEN rs[x[2]] ELSE <<>>]
    /\ winners = NoRows
    /\ posts = NoList
    /\ dms = [g \in GIDs |-> {}]
    /\ up = [p \in Procs |-> TRUE]
    /\ timers = [p \in Procs |-> {}]
    /\ drawpc = [p \in Procs |-> IF p = 1 THEN [NoDraw EXCEPT ![1] = "claimed"] ELSE NoDraw]
    /\ drawWinners = [p \in Procs |-> NoList]
    /\ joinTask = [p \in Procs |-> NoTask]
    /\ crashes = 0
    /\ \E path \in {"timer", "recovery"} :
          /\ claimWins = [NoList EXCEPT ![1] = <<path>>]
          /\ scan = [p \in Procs |-> IF p = 1 /\ path = "recovery" THEN <<1>> ELSE <<>>]
          /\ bootNow = [p \in Procs |-> IF p = 1 /\ path = "recovery" THEN MaxTime ELSE 0]
          /\ inline = [p \in Procs |-> IF p = 1 /\ path = "recovery" THEN 1 ELSE 0]
    /\ lostOn = NoDraw
    /\ saveRuns = [g \in GIDs |-> 0]
    /\ announceRuns = NoList
    /\ cancelAsked = NoDraw
    /\ dupIgnored = FALSE
    /\ call = [op |-> "run_draw", gid |-> 1, raised |-> FALSE, announced |-> FALSE,
               list |-> <<>>, sent |-> FALSE, failed |-> {}]

\* (mutant) a handler around the computation that gives the claim back
DrawRaiseRelease(p, gid) ==
    /\ up[p]
    /\ drawpc[p][gid] = "claimed"
    /\ call' = [call EXCEPT !.raised = TRUE]
    /\ giveaways' = SetStatus(giveaways, gid, "scheduled")
    /\ drawpc' = [drawpc EXCEPT ![p][gid] = "none"]
    /\ UNCHANGED <<now, entries, referrals, winners, outside, up, scan, bootNow, inline,
                   timers, drawWinners, joinTask, crashes, claimWins, lostOn, saveRuns,
                   announceRuns, cancelAsked, dupIgnored>>

\* run_draw, lines 784-829: a statement of the winner computation raises (a read of
\* the store fails, a stored date does not parse).  run_draw has no handler, the
\* exception ends the call: the scheduler logs it for a timer job; from
\* restore_schedules (1074) it leaves main (1088) and the process ends
DrawRaise(p, gid) ==
    /\ up[p]
    /\ drawpc[p][gid] = "claimed"
    /\ call' = [call EXCEPT !.raised = TRUE]
    /\ IF inline[p] = gid
       THEN /\ up' = [up EXCEPT ![p] = FALSE]
            /\ scan' = [scan EXCEPT ![p] = <<>>]
            /\ bootNow' = [bootNow EXCEPT ![p] = 0]
            /\ inline' = [inline EXCEPT ![p] = 0]
            /\ timers' = [timers EXCEPT ![p] = {}]
            /\ drawpc' = [drawpc EXCEPT ![p] = NoDraw]
            /\ drawWinners' = [drawWinners EXCEPT ![p] = NoList]
            /\ joinTask' = [joinTask EXCEPT ![p] = NoTask]
       ELSE /\ drawpc' = [drawpc EXCEPT ![p][gid] = "none"]
            /\ UNCHANGED <<up, scan, bootNow, inline, timers, drawWinners, joinTask>>
    /\ UNCHANGED <<now, store, outside, crashes, claimWins, lostOn, saveRuns,
                   announceRuns, cancelAsked, dupIgnored>>

\* run_draw, line 832, with the outcome of every send logged
DrawAnnounceLogged(p, gid) ==
    \E sent \in BOOLEAN, failed \in SUBSET Range(drawWinners[p][gid]) :
        /\ run_draw_announce(p, gid, sent, failed)
        /\ call' = [call EXCEPT !.announced = TRUE, !.list = drawWinners[p][gid],
                                !.sent = sent, !.failed = failed]

NextFault ==
    \/ \E p \in Procs, gid \in GIDs : DrawSelect(p, gid)
    \/ \E p \in Procs, gid \in GIDs : DrawRaise(p, gid)
    \/ \E p \in Procs, gid \in GIDs : DrawSave(p, gid)
    \/ \E p \in Procs, gid \in GIDs : DrawAnnounceLogged(p, gid)
    \/ \E p \in Procs : StartProcess(p)

SpecFault == InitFault /\ [][NextFault]_vars

\* ---- tg_webhook: the inbound updates.  An update is a body that is no JSON
\* ("badjson"), JSON that is no Update ("invalid"), or the message
\* "/start ref-<gid>-<ref>" from uid, handled by cmd_start; answer_ok: the reply
\* m.answer of the handler (bot.py:386) does not raise
Updates ==
    {[kind |-> k, gid |-> 0, ref |-> 0, uid |-> 0, answer_ok |-> TRUE] : k \in {"badjson", "invalid"}}
    \cup {[kind |-> "start", gid |-> gid, ref |-> ref, uid |-> uid, answer_ok |-> a] :
             gid \in GIDs, ref \in RefIds, uid \in Users, a \in BOOLEAN}

\* cmd_start, lines 363-374: the referral of a deep link, for a scheduled giveaway
\* of type referrals
cmd_start(gs, rs, gid, ref, uid) ==
    IF Exists(gs, gid) /\ fetch_giveaway(gs, gid).type = "referrals"
          /\ fetch_giveaway(gs, gid).status = "scheduled"
    THEN add_referral(rs, gid, ref, uid)
    ELSE rs

\* the try block of tg_webhook, lines 1040-1043: request.json, Update.model_validate,
\* dp.feed_update (an exception of the handler comes out of it), Response "ok"
webhook_try(update) ==
    IF update.kind \in {"badjson", "invalid"} THEN "raised"
    ELSE IF ~update.answer_ok THEN "raised"
    ELSE "ok"

\* (mutant) no except clause
webhook_except_none(outcome) == outcome

\* except Exception, lines 1044-1046: log, Response(status=500, text="error")
webhook_except(outcome) == IF outcome = "raised" THEN "error" ELSE outcome

tg_webhook(update) == webhook_except(webhook_try(update))

InitWebhook ==
    /\ now = 0
    /\ \E k \in 1..MaxWinners, st \in [GIDs -> {"scheduled", "finished"}] :
          giveaways = [g \in GIDs |-> [Row("referrals", k) EXCEPT !.status = st[g]]]
    /\ entries = [x \in GIDs \X Users |-> 0]
    /\ referrals = [x \in GIDs \X Users |-> <<>>]
    /\ winners = NoRows
    /\ Idle
    /\ call = NoCall

\* one POST to the webhook path
TgWebhookCall(update) ==
    /\ referrals' = IF update.kind = "start"
                    THEN cmd_start(giveaways, referrals, update.gid, update.ref, update.uid)
                    ELSE referrals
    /\ call' = [op |-> "tg_webhook", update |-> update, response |-> tg_webhook(update),
                before |-> referrals]
    /\ UNCHANGED <<now, giveaways, entries, winners, outside, procvars, crashes, claimWins,
                   lostOn, saveRuns, announceRuns, cancelAsked, dupIgnored>>

NextWebhook == \E update \in Updates : TgWebhookCall(update)

SpecWebhook == InitWebhook /\ [][NextWebhook]_vars

\* ---- run_draw called on any row: every giveaway is scheduled, finished (drawn,
\* saved and announced by an earlier run) or canceled (a status no statement of
\* the program writes; the claim's WHERE clause reads it like any status other
\* than scheduled), with the entries and referrals the handlers left
DrawnLists == UNION {sample(Users \cup RefIds, k) : k \in 0..MaxWinners}

InitRunDraw ==
    /\ now = MaxTime
    /\ \E type \in Types, st \in [GIDs -> {"scheduled", "finished", "canceled"}] :
          giveaways = [g \in GIDs |-> [Row(type, MaxWinners) EXCEPT !.status = st[g]]]
    /\ \E joined \in SUBSET Users :
          entries = [x \in GIDs \X Users |-> IF x[2] \in joined THEN 1 ELSE 0]
    /\ \E rs \in [Users -> {<<>>, <<MaxReferrers>>}] :
          referrals = [x \in GIDs \X Users |-> rs[x[2]]]
    /\ \E lists \in [GIDs -> DrawnLists] :
          /\ \A g \in GIDs :
                lists[g] \in (IF giveaways[g].status = "finished"
                              THEN select_winners(giveaways[g], g, entries, referrals, Users)
                              ELSE {<<>>})
          /\ winners = [g \in GIDs |-> save_winners_rows(NoRows, g, lists[g])[g]]
          /\ posts = [g \in GIDs |-> IF giveaways[g].status = "finished"
                                     THEN <<lists[g]>> ELSE <<>>]
          /\ dms = [g \in GIDs |-> Range(lists[g])]
    /\ up = [p \in Procs |-> TRUE]
    /\ scan = [p \in Procs |-> <<>>]
    /\ bootNow = [p \in Procs |-> 0]
    /\ inline = [p \in Procs |-> 0]
    /\ timers = [p \in Procs |-> {}]
    /\ drawpc = [p \in Procs |-> NoDraw]
    /\ drawWinners = [p \in Procs |-> NoList]
    /\ joinTask = [p \in Procs |-> NoTask]
    /\ crashes = 0
    /\ claimWins = [g \in GIDs |-> IF giveaways[g].status = "finished" THEN <<"timer">> ELSE <<>>]
    /\ lostOn = NoDraw
    /\ saveRuns = [g \in GIDs |-> IF giveaways[g].status = "finished" THEN 1 ELSE 0]
    /\ announceRuns = [g \in GIDs |-> IF giveaways[g].status = "finished" THEN <<"None">> ELSE <<>>]
    /\ cancelAsked = NoDraw
    /\ dupIgnored = FALSE
    /\ call = [op |-> "run_draw", gid |-> 0, n |-> 0, found |-> "none"]

\* one call run_draw(gid) in process p, up to the return at line 780 or the claim;
\* found: the status the call met
RunDrawCall(p, gid) ==
    /\ up[p]
    /\ call.n < MaxDrawCalls
    /\ run_draw_claim(p, gid, "timer")
    /\ call' = [call EXCEPT !.gid = gid, !.n = @ + 1,
                            !.found = fetch_giveaway(giveaways, gid).status]
    /\ UNCHANGED <<now, entries, referrals, winners, outside, up, scan, bootNow, inline,
                   timers, drawWinners, joinTask, crashes, saveRuns, announceRuns,
                   cancelAsked, dupIgnored>>

NextRunDraw ==
    \/ \E p \in Procs, gid \in GIDs : RunDrawCall(p, gid)
    \/ \E p \in Procs, gid \in GIDs : DrawSelect(p, gid)
    \/ \E p \in Procs, gid \in GIDs : DrawSave(p, gid)
    \/ \E p \in Procs, gid \in GIDs : DrawAnnounce(p, gid)

SpecRunDraw == InitRunDraw /\ [][NextRunDraw]_vars

\* ---- the program without process deaths.  A draw task that is ready to go on
\* does go on: the event loop resumes every coroutine whose await has returned,
\* the reads and writes of the store return, and a call to the platform returns or
\* raises within its timeout
NextLive ==
    \/ Tick
    \/ \E p \in Procs, type \in Types, k \in 1..MaxWinners, end \in 1..MaxTime :
          g_confirm(p, type, k, end)
    \/ \E p \in Procs : StartProcess(p)
    \/ \E p \in Procs : RestoreStep(p)
    \/ \E p \in Procs, gid \in GIDs : TimerFire(p, gid)
    \/ \E p \in Procs, gid \in GIDs : DrawSelect(p, gid)
    \/ \E p \in Procs, gid \in GIDs : DrawSave(p, gid)
    \/ \E p \in Procs, gid \in GIDs : DrawAnnounce(p, gid)
    \/ \E p \in Procs, gid \in GIDs, uid \in Users : JoinBegin(p, gid, uid)
    \/ \E p \in Procs, gid \in GIDs, ref \in Users, uid \in Users : RefBegin(p, gid, ref, uid)
    \/ \E p \in Procs : JoinEnd(p)

FairDraw ==
    \A p \in Procs, gid \in GIDs :
        /\ WF_vars(DrawSelect(p, gid))
        /\ WF_vars(DrawSave(p, gid))
        /\ WF_vars(DrawAnnounce(p, gid))

SpecLive == Init /\ [][NextLive]_vars /\ FairDraw

\* ---- the two platform checks with a failing platform.  Either giveaway 1 is a
\* scheduled button giveaway with required channels and /api/join is called with
\* the answer of get_chat_member for each channel (a member status, "left", or
\* the call raises), or it is a claimed boosts giveaway and run_draw selects with
\* the answers of get_user_chat_boosts
MemberAnswers == {"member", "administrator", "creator", "left", "raises"}

\* (mutant) a check that lets a raising call pass
passing_channels_open(answers) == {ch \in Channels : answers[ch] # "left"}

\* check_requirements, lines 335-340: the channels that do not end in failed: the
\* call returned and the status is member, administrator or creator
passing_channels(answers) ==
    {ch \in Channels : answers[ch] \in {"member", "administrator", "creator"}}

InitGate ==
    /\ referrals = [x \in GIDs \X Users |-> <<>>]
    /\ winners = NoRows
    /\ Idle
    /\ \/ /\ now = FreshWindow + 1
          /\ \E required \in SUBSET Channels :
                giveaways = <<[status |-> "scheduled", type |-> "button",
                               winners_count |-> MaxWinners, start_at |-> 0,
                               end_at |-> FreshWindow + 2, post |-> TRUE,
                               required |-> required]>>
          /\ entries = [x \in GIDs \X Users |-> 0]
          /\ call = NoCall
       \/ /\ now = MaxTime
          /\ \E k \in 1..MaxWinners, start \in 0..MaxTime :
                giveaways = <<[Row("boosts", k) EXCEPT !.status = "drawing",
                                                       !.start_at = start]>>
          /\ \E joined \in SUBSET Users :
                entries = [x \in GIDs \X Users |->
                              IF x[1] = 1 /\ x[2] \in joined THEN 1 ELSE 0]
          /\ \E boosts \in [Users -> BoostInfo] :
                call = [op |-> "select_boosts", boosts |-> boosts, done |-> FALSE,
                        out |-> <<>>]

\* one request to /api/join from an authenticated user; answers: what
\* get_chat_member does for each channel during this request
GateJoinCall(req, answers) ==
    /\ call.op # "select_boosts"
    /\ validate_webapp_init(req.init, BOT_TOKEN, now).uid # 0
    /\ LET r == api_join(giveaways, entries, req, passing_channels(answers), now)
       IN /\ entries' = r.entries
          /\ call' = [op |-> "api_join", req |-> req, answers |-> answers, uid |-> r.uid,
                      resp |-> r.resp, before |-> entries]
    /\ UNCHANGED <<now, giveaways, referrals, winners, outside, procvars, crashes, claimWins,
                   lostOn, saveRuns, announceRuns, cancelAsked, dupIgnored>>

NextGate ==
    \/ \E req \in Requests, answers \in [Channels -> MemberAnswers] : GateJoinCall(req, answers)
    \/ SelectBoostsCall

SpecGate == InitGate /\ [][NextGate]_vars

\* ================================================================== properties
Rows == 1..Len(giveaways)

\* the processes with a run_draw task past the claim of giveaway g
Working(g) == {p \in Procs : drawpc[p][g] # "none"}

\* every process is up and its restore_schedules has returned
Quiet == \A p \in Procs : up[p] /\ scan[p] = <<>> /\ inline[p] = 0

\* C1: of all run_draw calls on a giveaway, from any number of processes, timers
\* and recovery scans, exactly one wins the conditional UPDATE scheduled -> drawing
\* (the giveaway has left scheduled iff there is exactly one winning call); at most
\* one run_draw task is ever past the claim, and the draw work (save_winners,
\* announce_results) is done at most once, by the winner.
C1_SingleClaim ==
    \A g \in GIDs :
        /\ Len(claimWins[g]) =
              (IF fetch_giveaway(giveaways, g).status \in {"drawing", "finished"} THEN 1 ELSE 0)
        /\ Cardinality(Working(g)) <= Len(claimWins[g])
        /\ saveRuns[g] <= Len(claimWins[g])
        /\ Len(announceRuns[g]) <= Len(claimWins[g])

\* C1 witness: one call won the claim and another call found no row to update
C1_ClaimRaceLost ==
    \E g \in Rows : Len(claimWins[g]) = 1 /\ lostOn[g] # "none"

\* C2 (as claimed): winners are persisted at most once, and never zero times: a
\* giveaway that was claimed at its deadline is not left without persisted winners
\* once every process is up again, has finished its startup scan and runs no draw
\* of it.
C2_PersistedExactlyOnce ==
    \A g \in Rows :
        /\ saveRuns[g] <= 1
        /\ (giveaways[g].status = "drawing" /\ Quiet /\ Working(g) = {}) => saveRuns[g] = 1

\* C3 (as claimed): the results are announced at most once, and a giveaway that is
\* finished, with no run_draw task still on its way to announce_results, has had
\* its announcement made.
C3_AnnouncedExactlyOnce ==
    \A g \in Rows :
        /\ Len(announceRuns[g]) <= 1
        /\ Len(posts[g]) <= 1
        /\ (giveaways[g].status = "finished" /\ Working(g) = {}) => Len(announceRuns[g]) = 1

\* C4 (as claimed): two calls of announce_results in sequence post the results
\* message once, and return different values (won / already announced).
C4_AnnounceTwicePostsOnce ==
    \A g \in Rows :
        Len(announceRuns[g]) = 2 =>
            /\ Len(posts[g]) <= 1
            /\ announceRuns[g][1] # announceRuns[g][2]

\* C5 (as claimed): a run_draw call that finds the giveaway in drawing with no draw
\* task alive (the claimer died) takes the interrupted draw over.
C5_ReentryResumes ==
    [][\A g \in GIDs :
          (lostOn[g] # "drawing" /\ lostOn'[g] = "drawing" /\ Working(g) = {})
              => \E p \in Procs : drawpc'[p][g] # "none"]_vars

\* C6 (as claimed): the scan a starting process makes lists every giveaway that is
\* scheduled or drawing.
C6_ScanCoversNonTerminal ==
    [][\A p \in Procs :
          (~up[p] /\ up'[p]) =>
              \A g \in Rows :
                  giveaways[g].status \in {"scheduled", "drawing"} => g \in Range(scan'[p])]_vars

\* C7 (as claimed): a giveaway claimed by the recovery path is claimed once, and
\* when no run_draw task is working on it any more it is in the final state of a
\* completed draw: winners persisted once, results announced once, status finished.
C7_RecoveryOutcome ==
    \A g \in Rows :
        "recovery" \in Range(claimWins[g]) =>
            /\ Len(claimWins[g]) = 1
            /\ Working(g) = {} =>
                  /\ giveaways[g].status = "finished"
                  /\ saveRuns[g] = 1
                  /\ Len(announceRuns[g]) = 1

\* C8: every step leaves a giveaway's status alone or moves it along
\* scheduled -> drawing, drawing -> finished or scheduled -> canceled; so finished
\* and canceled are never left.
C8_StatusTransitions ==
    [][\A g \in Rows :
          \/ giveaways'[g].status = giveaways[g].status
          \/ <<giveaways[g].status, giveaways'[g].status>> \in
                {<<"scheduled", "drawing">>, <<"drawing", "finished">>,
                 <<"scheduled", "canceled">>}]_vars

\* C8 witness: a run_draw call arrived at a finished giveaway (and left it finished)
C8_DrawCallOnFinished ==
    \E g \in Rows : lostOn[g] = "finished" /\ giveaways[g].status = "finished"

\* C9 (as claimed): a cancellation asked for while the giveaway is scheduled makes
\* it canceled and no draw ever claims it; one asked for while it is drawing leaves
\* the draw alone.
C9_CancelWhileScheduled ==
    \A g \in Rows :
        /\ cancelAsked[g] = "scheduled" =>
              giveaways[g].status = "canceled" /\ claimWins[g] = <<>>
        /\ cancelAsked[g] = "drawing" => giveaways[g].status \in {"drawing", "finished"}

\* C10: the entries table never holds two rows for one (giveaway, user), whatever
\* the interleaving of the participation handlers; so the count of a giveaway's
\* entries is the number of distinct users that joined it.
C10_EntryUnique ==
    \A g \in GIDs :
        /\ \A u \in Users : entries[<<g, u>>] <= 1
        /\ count_entries(entries, g) = Cardinality(get_entries(entries, g))

\* C10 witness: a handler reached add_entry for a user whose row was already there
\* (two handlers for the same user passed has_entry together), and the row is single
C10_DuplicateJoinIgnored ==
    dupIgnored /\ \E g \in Rows, u \in Users : entries[<<g, u>>] = 1
\* C11: after any sequence of add_referral calls a referred user of a giveaway has
\* at most one referral row, no row has referrer = referred, and a call for a
\* referred user that already had a row left that row as it was (the first
\* recorded referrer stays).
C11_ReferralUnique ==
    /\ \A x \in GIDs \X Users :
          /\ Len(referrals[x]) <= 1
          /\ x[2] \notin Range(referrals[x])
    /\ (call.op = "add_referral" /\ call.had # <<>>) =>
          referrals[<<call.gid, call.referred_id>>] = call.had

\* C11 witness: a second referrer tried to claim an already credited user and the
\* first referrer is still the only one recorded
C11_SecondReferrerIgnored ==
    /\ call.op = "add_referral"
    /\ call.had # <<>>
    /\ call.referrer_id \notin {call.referred_id, call.had[1]}
    /\ referrals[<<call.gid, call.referred_id>>] = call.had
\* the run_draw tasks that hold a computed winners list, as <<process, giveaway>>
Selected == {x \in Procs \X Rows : drawpc[x[1]][x[2]] \in {"selected", "saved"}}

\* C12: for a button or comments giveaway the winners list run_draw computes has no
\* repeated user, has length min(winners_count, number of entrants), holds only
\* entrants of that giveaway, and holds every entrant when winners_count is at
\* least the number of entrants.
C12_SampleOfEntrants ==
    \A x \in Selected :
        LET g == giveaways[x[2]]
            list == drawWinners[x[1]][x[2]]
            entrants == {u \in Users : entries[<<x[2], u>>] > 0}
        IN g.type \in {"button", "comments"} =>
              /\ Injective(list)
              /\ Len(list) = (IF g.winners_count <= Cardinality(entrants)
                              THEN g.winners_count ELSE Cardinality(entrants))
              /\ Range(list) \subseteq entrants
              /\ g.winners_count >= Cardinality(entrants) => Range(list) = entrants

\* C12 witness: winners_count is smaller than the number of entrants and the list
\* computed has winners_count members
C12_FewerWinnersThanEntrants ==
    \E x \in Selected :
        /\ giveaways[x[2]].type \in {"button", "comments"}
        /\ giveaways[x[2]].winners_count < Cardinality({u \in Users : entries[<<x[2], u>>] > 0})
        /\ Len(drawWinners[x[1]][x[2]]) = giveaways[x[2]].winners_count
\* C13: for a referrals giveaway the winners list has length
\* min(winners_count, number of referrers), no repeated referrer, only referrers,
\* and no selected referrer has a strictly lower count than a referrer left out.
C13_ReferralOrder ==
    (call.op = "select_top" /\ call.done) =>
        LET top == call.top
            out == call.out
            n == Cardinality(DOMAIN top)
        IN /\ Len(out) = (IF call.k <= n THEN call.k ELSE n)
           /\ Injective(out)
           /\ Range(out) \subseteq DOMAIN top
           /\ \A a \in Range(out), b \in DOMAIN top \ Range(out) : top[a] >= top[b]

\* C13 witness: counts {1: 3, 2: 3, 3: 1} with two winners give exactly the
\* referrers 1 and 2
C13_TopTwoOfThree ==
    /\ call.op = "select_top"
    /\ call.done
    /\ call.top = [u \in RefIds |-> IF u = MaxReferrers THEN 1 ELSE MaxCount]
    /\ call.k = 2
    /\ Range(call.out) = RefIds \ {MaxReferrers}
\* the entrants of giveaway 1 that hold, at draw time, a boost added at or after
\* the giveaway's start (SpecBoost)
EligibleNow ==
    {u \in Users : /\ entries[<<1, u>>] > 0
                   /\ ~call.boosts[u].raises
                   /\ \E ad \in call.boosts[u].dates : ad >= giveaways[1].start_at}

\* C14: for a boosts giveaway every winner is an entrant that holds a valid boost
\* at draw time, the list has no repeats, and its length is
\* min(winners_count, 200, number of entrants eligible at draw time).
C14_BoostEligibleAtDraw ==
    /\ (call.op = "select_boosts" /\ call.done) =>
          /\ Range(call.out) \subseteq EligibleNow
          /\ Injective(call.out)
          /\ Len(call.out) <= giveaways[1].winners_count
          /\ Len(call.out) <= Cardinality(EligibleNow)
          /\ Len(call.out) \in {giveaways[1].winners_count, Cardinality(EligibleNow)}
    /\ (call.op = "boost_k" /\ call.done) =>
          /\ call.k <= call.winners_count
          /\ call.k <= 200
          /\ call.k <= call.pool_size
          /\ call.k \in {call.winners_count, 200, call.pool_size}

\* C14 witness: an entrant whose only boost is older than the giveaway's start is
\* left out of a non-empty winners list
C14_StaleBoostLeftOut ==
    /\ call.op = "select_boosts"
    /\ call.done
    /\ call.out # <<>>
    /\ \E u \in Users :
          /\ entries[<<1, u>>] > 0
          /\ call.boosts[u].dates # {}
          /\ ~call.boosts[u].raises
          /\ u \notin EligibleNow
          /\ u \notin Range(call.out)
\* C15 (as claimed): a giveaway drawn over an empty pool (finished with an empty
\* stored winners list), with no run_draw task on it any more, has had its
\* "no participants" announcement made exactly once.
C15_EmptyPoolAnnounced ==
    \A g \in Rows :
        (giveaways[g].status = "finished" /\ winners[g] = {} /\ Working(g) = {}) =>
            /\ saveRuns[g] = 1
            /\ Len(announceRuns[g]) = 1
            /\ Len(posts[g]) <= 1
\* C16: after save_winners(gid, list) the stored winners of gid are exactly the
\* list, one row per member with places 1..Len(list) in list order (what was
\* stored before is gone), and the winners of every other giveaway are as before.
C16_WinnersReplaced ==
    call.op = "save_winners" =>
        /\ Cardinality(winners[call.gid]) = Len(call.list)
        /\ {r.place : r \in winners[call.gid]} = 1..Len(call.list)
        /\ \A r \in winners[call.gid] : call.list[r.place] = r.user_id
        /\ get_winners(winners, call.gid) = call.list
        /\ \A g \in GIDs \ {call.gid} : winners[g] = call.before[g]

\* C16 witness: the giveaway had a stored winner that is not in the new list, and
\* another giveaway has stored winners
C16_OldWinnerGone ==
    /\ call.op = "save_winners"
    /\ \E r \in call.before[call.gid] : r.user_id \notin Range(call.list)
    /\ call.list # <<>>
    /\ \E g \in GIDs \ {call.gid} : winners[g] # {}
\* the validation calls that have returned (SpecAuth)
Validated == call.op = "validate_webapp_init" /\ call.done

\* the payload carries the bot's digest of its own remaining fields
WellSigned(init) ==
    init.hash = [kind |-> "hmac", key |-> BOT_TOKEN, flip |-> FALSE,
                 data |-> data_check_string(init.user, init.auth_date)]

\* C17: the validator returns a user id only for a payload whose hash field is the
\* keyed hash of the string built from its other fields, and the id is the one of
\* its user field; no hash, a hash that differs, or a user field that is missing
\* or cannot be parsed gives no user id.
C17_SignatureRequired ==
    Validated =>
        /\ call.uid # 0 =>
              /\ WellSigned(call.init)
              /\ call.init.user = Field("id", call.uid)
        /\ call.init.hash.kind \in {"absent", "blank"} => call.uid = 0
        /\ ~WellSigned(call.init) => call.uid = 0
        /\ call.init.user.kind # "id" => call.uid = 0

\* C17 witness: a payload whose hash differs from the right one in one character
\* was rejected as bad_signature
C17_FlippedSignatureRejected ==
    /\ Validated
    /\ call.init.hash.kind = "hmac"
    /\ call.init.hash.flip
    /\ [call.init.hash EXCEPT !.flip = FALSE] =
          calc_webapp_hash(data_check_string(call.init.user, call.init.auth_date), BOT_TOKEN)
    /\ call.init.user.kind = "id"
    /\ call.uid = 0
    /\ call.reason = "bad_signature"

\* C18 (as claimed): every payload the validator accepts declares an issuance
\* timestamp that is at most 180 seconds old at validation time.
C18_AcceptedIsFresh ==
    (Validated /\ call.uid # 0) =>
        /\ call.init.auth_date.kind = "int"
        /\ now - call.init.auth_date.v <= 180
\* the latest request to /api/join came from an authenticated user for a giveaway
\* that is open to the endpoint (SpecJoin)
JoinedOpen ==
    /\ call.op = "api_join"
    /\ call.uid # 0
    /\ call.req.json /\ call.req.gid # 0
    /\ fetch_giveaway(giveaways, call.req.gid).status = "scheduled"
    /\ fetch_giveaway(giveaways, call.req.gid).type = "button"

\* C19: a join by an authenticated user who already has an entry answers ok with
\* the total as it was after the first join and adds no entry; a join by a new
\* user whom the requirements check rejects answers ok:false with the failed
\* channels and leaves the entries as they were.
C19_JoinIdempotent ==
    JoinedOpen =>
        LET gid == call.req.gid
            had == call.before[<<gid, call.uid>>] > 0
            missing == giveaways[gid].required \ call.passing
        IN /\ had =>
                 /\ call.resp.ok
                 /\ call.resp.total = Cardinality({u \in Users : call.before[<<gid, u>>] > 0})
                 /\ entries = call.before
           /\ (~had /\ missing # {}) =>
                 /\ ~call.resp.ok
                 /\ call.resp.need = missing
                 /\ entries = call.before

\* C19 witness: the user's second join came back ok with the total of two entrants
\* and the entries unchanged
C19_RepeatJoinSameTotal ==
    /\ JoinedOpen
    /\ call.before[<<call.req.gid, call.uid>>] > 0
    /\ call.resp.ok
    /\ call.resp.total = 2
    /\ entries = call.before
C21_AnnouncedIsPersisted ==
    \A g \in GIDs : \A i \in 1..Len(posts[g]) : posts[g][i] = get_winners(winners, g)

\* C21 witness: a results message with two winners was published and lists the
\* stored winners in place order
C21_TwoWinnersAnnounced ==
    \E g \in Rows :
        /\ Len(posts[g]) = 1
        /\ Len(posts[g][1]) = 2
        /\ posts[g][1] = get_winners(winners, g)
\* C22: a send that fails while a claimed draw runs does not keep the giveaway from
\* finished: a run whose computation did not raise ends with status finished and
\* announce_results done, whether the results message was sent or not and whichever
\* winner messages failed (a draw-time boost check that raises counts as "no boost"
\* and only narrows the pool); each winner whose own message did not fail has
\* received it, whatever happened to the messages before it.
C22_OutboundFailuresTolerated ==
    call.op = "run_draw" =>
        /\ (Working(call.gid) = {} /\ ~call.raised) =>
              /\ giveaways[call.gid].status = "finished"
              /\ call.announced
        /\ call.announced =>
              /\ giveaways[call.gid].status = "finished"
              /\ posts[call.gid] = IF call.sent THEN <<call.list>> ELSE <<>>
              /\ dms[call.gid] = Range(call.list) \ call.failed

\* C22 witness: the results message and the message to the first winner failed,
\* the second winner was notified and the giveaway is finished
C22_SecondWinnerNotified ==
    /\ call.op = "run_draw"
    /\ call.announced
    /\ ~call.sent
    /\ Len(call.list) = 2
    /\ call.failed = {call.list[1]}
    /\ dms[call.gid] = {call.list[2]}
    /\ posts[call.gid] = <<>>
    /\ giveaways[call.gid].status = "finished"

\* C23: when the winner computation of a claimed draw raises, the giveaway stays in
\* status drawing, no winners row is written, nothing is posted and no winner is
\* messaged, also after the process has been started again.
C23_RaiseLeavesDrawing ==
    (call.op = "run_draw" /\ call.raised) =>
        /\ giveaways[call.gid].status = "drawing"
        /\ winners = NoRows
        /\ saveRuns[call.gid] = 0
        /\ posts = NoList
        /\ dms = [g \in GIDs |-> {}]
        /\ announceRuns = NoList
        /\ ~call.announced

\* C23 witness: the computation raised in a draw run from the startup scan, the
\* process ended and was started again; the giveaway is still drawing
C23_RaisedInRecovery ==
    /\ call.op = "run_draw"
    /\ call.raised
    /\ claimWins[call.gid] = <<"recovery">>
    /\ \A p \in Procs : up[p]
    /\ Working(call.gid) = {}
    /\ giveaways[call.gid].status = "drawing"
    /\ winners[call.gid] = {}
\* C24: tg_webhook answers every inbound update with a response and lets no
\* exception out: "ok" when the body parsed, validated and its handler returned,
\* the 500 response "error" when the body is no JSON, is no Update, or the handler
\* raised.
C24_WebhookAlwaysResponds ==
    call.op = "tg_webhook" =>
        /\ call.response \in {"ok", "error"}
        /\ call.response = "ok" <=> (call.update.kind = "start" /\ call.update.answer_ok)

\* C24 witness: the handler stored the referral and raised on its reply; the
\* receiver answered with the failure response
C24_HandlerRaisedAnswered ==
    /\ call.op = "tg_webhook"
    /\ call.update.kind = "start"
    /\ ~call.update.answer_ok
    /\ referrals # call.before
    /\ call.response = "error"
\* C25 (as claimed): a giveaway has status finished only after announce_results has
\* run for it, and an announcement is made only after the winners were saved.
C25_FinishedOnlyAfterAnnounce ==
    \A g \in Rows :
        /\ giveaways[g].status = "finished" => Len(announceRuns[g]) >= 1
        /\ Len(announceRuns[g]) >= 1 => saveRuns[g] >= 1
\* C26: a run_draw call that meets a giveaway in status finished or canceled
\* returns at once: the step leaves the giveaways, entries, referrals and winners
\* tables as they are, posts and messages nothing, starts no draw task and counts
\* as no claim, however many such calls are made.
C26_LostClaimIsNoOp ==
    [][(call'.n # call.n /\ call'.found \in {"finished", "canceled"}) =>
          /\ UNCHANGED <<store, outside, drawpc, drawWinners>>
          /\ UNCHANGED <<claimWins, saveRuns, announceRuns>>]_vars

\* C26 witness: the second run_draw call on a finished giveaway with a winner has
\* returned; the giveaway is still finished with its one results message
C26_SecondCallOnFinished ==
    /\ call.op = "run_draw"
    /\ call.n >= 2
    /\ call.found = "finished"
    /\ lostOn[call.gid] = "finished"
    /\ giveaways[call.gid].status = "finished"
    /\ winners[call.gid] # {}
    /\ Len(posts[call.gid]) = 1
    /\ claimWins[call.gid] = <<"timer">>

\* C28: the step that claims a giveaway (scheduled -> drawing) changes nothing in
\* the store but the status of that one row: every other giveaways row and the
\* entries, referrals and winners tables are the same after it (the row has no
\* lock-owner column).
C28_ClaimTouchesOneStatus ==
    [][\A g \in GIDs :
          (giveaways[g].status = "scheduled" /\ giveaways'[g].status = "drawing") =>
              /\ giveaways' = [giveaways EXCEPT ![g].status = "drawing"]
              /\ UNCHANGED <<entries, referrals, winners>>]_vars

\* C28 witness: a giveaway was claimed next to a scheduled one and both have entrants
C28_ClaimedNextToScheduled ==
    \E g \in GIDs, h \in GIDs :
        /\ call.op = "run_draw"
        /\ call.gid = g
        /\ call.found = "scheduled"
        /\ giveaways[g].status = "drawing"
        /\ giveaways[h].status = "scheduled"
        /\ get_entries(entries, g) # {}
        /\ get_entries(entries, h) # {}
\* C27: no giveaway goes from scheduled to drawing before its deadline: every step
\* that claims a giveaway, from a timer job or from the startup scan, is taken when
\* the clock is at or past the giveaway's end.
C27_NoClaimBeforeDeadline ==
    [][\A g \in Rows :
          (giveaways[g].status = "scheduled" /\ giveaways'[g].status = "drawing") =>
              giveaways[g].end_at <= now]_vars

\* C27 witness: a giveaway created before its deadline was claimed by its timer
\* job, at or after the deadline
C27_ClaimedByTimerAtDeadline ==
    \E g \in Rows :
        /\ giveaways[g].status = "drawing"
        /\ claimWins[g] = <<"timer">>
        /\ giveaways[g].start_at < giveaways[g].end_at
        /\ giveaways[g].end_at <= now
\* C29 (as claimed): once a giveaway has left status scheduled, no entry and no
\* referral is added for it, so the entrants stored with a finished giveaway are
\* the pool its winners were drawn from.
C29_ClosedAfterClaim ==
    [][\A g \in Rows :
          giveaways[g].status # "scheduled" =>
              \A u \in Users : /\ entries'[<<g, u>>] = entries[<<g, u>>]
                               /\ referrals'[<<g, u>>] = referrals[<<g, u>>]]_vars
\* C30 (as claimed): while no process has gone down, every giveaway that is in
\* status scheduled has its draw job armed in some running process, also when
\* publishing its post failed, so it is drawn at its deadline without a restart.
C30_CreatedIsArmed ==
    \A g \in Rows :
        (crashes = 0 /\ giveaways[g].status = "scheduled") =>
            \E p \in Procs : up[p] /\ (g \in timers[p] \/ g \in Range(scan[p]))
\* C31: a giveaway has winners rows only when its status is finished (save_winners
\* writes the rows and the status in one commit), and it never has more winners
\* rows than its winners_count.
C31_WinnersOnlyWhenFinished ==
    \A g \in Rows :
        /\ winners[g] # {} => giveaways[g].status = "finished"
        /\ Cardinality(winners[g]) <= giveaways[g].winners_count

\* C31 witness: a finished giveaway with more entrants than winners_count holds
\* exactly winners_count winners
C31_PoolLargerThanCount ==
    \E g \in Rows :
        /\ giveaways[g].status = "finished"
        /\ Cardinality(get_entries(entries, g)) > giveaways[g].winners_count
        /\ Cardinality(winners[g]) = giveaways[g].winners_count
\* C32: without process deaths and store failures, every giveaway that was claimed
\* (status drawing) is finished later, whatever its type and its pool, the empty
\* pool included; no giveaway stays in drawing for ever.
C32_ClaimedLeadsToFinished ==
    \A g \in GIDs :
        (fetch_giveaway(giveaways, g).status = "drawing")
            ~> (fetch_giveaway(giveaways, g).status = "finished")

\* C32 witness: a draw claimed with an empty pool has run to its end and the
\* giveaway is finished without winners
C32_EmptyPoolFinished ==
    \E g \in Rows :
        /\ giveaways[g].status = "finished"
        /\ Len(claimWins[g]) = 1
        /\ get_entries(entries, g) = {}
        /\ winners[g] = {}
        /\ Working(g) = {}
        /\ Len(announceRuns[g]) = 1
\* C33: the platform checks fail closed.  A join of a user without an entry, for
\* which get_chat_member raises on a required channel, is answered ok:false with
\* that channel among the unmet ones and adds no entry; an entrant for whom
\* get_user_chat_boosts raises at draw time is not among the winners drawn from
\* the boosts pool.
C33_ChecksFailClosed ==
    /\ (call.op = "api_join" /\ call.req.gid \in Rows /\ join_open(giveaways[call.req.gid])
           /\ ~has_entry(call.before, call.req.gid, call.uid)) =>
          \A ch \in giveaways[call.req.gid].required :
              call.answers[ch] = "raises" =>
                  /\ ~call.resp.ok
                  /\ call.resp.reason = "conditions"
                  /\ ch \in call.resp.need
                  /\ entries = call.before
    /\ (call.op = "select_boosts" /\ call.done) =>
          \A u \in Users : call.boosts[u].raises => u \notin Range(call.out)

\* C33 witness: the user is a member of one required channel and the check of the
\* other raised; the answer names the other channel and no entry was added
C33_RaisingChannelUnmet ==
    /\ call.op = "api_join"
    /\ call.req.gid \in Rows
    /\ giveaways[call.req.gid].required = Channels
    /\ \E ch \in Channels :
          /\ call.answers[ch] = "raises"
          /\ \A other \in Channels \ {ch} : call.answers[other] = "member"
          /\ call.resp.need = {ch}
    /\ ~call.resp.ok
    /\ entries = call.before
    /\ get_entries(entries, call.req.gid) = {}
====
